---- MODULE Spec2Model ----
(***************************************************************************)
(* A model of pgmigrate (pgmigrate.go): Migrations.Valid, Config.Migrate   *)
(* and its helpers init, verifyMigrations and applyMigrations, run against *)
(* a transactional database that holds the bookkeeping table and the       *)
(* effects of the executed migration statements.                           *)
(*                                                                         *)
(* A transaction is modelled by its write set: what it created, executed   *)
(* and inserted is visible to itself at once and becomes durable on        *)
(* Commit; Rollback drops it.                                              *)
(*                                                                         *)
(* LoadMigrations (the name pattern, the id parser, the sort) and          *)
(* quoteIdentifier with Config.table are modelled on texts that are        *)
(* sequences of characters; SpecLoad and SpecQuote run them.               *)
(***************************************************************************)
EXTENDS Integers, Sequences, FiniteSets, TLC

\* Longest candidate sequence handed to Migrate.
MaxLen == 2

\* The invocations of Migrate that may be in progress at the same time.
Procs == {1, 2}

\* Spec and SpecTamper run the invocations one at a time: one caller.
Sequential == {1}

\* Migration ids the caller may present: 0 (invalid), 1..MaxLen, and one beyond.
IDs == 0 .. (MaxLen + 1)

\* Description and SQL texts; "" is the missing value.
Descriptions == {"", "a", "b"}
Statements == {"", "x", "y"}

\* type Migration struct { ID int; Description string; SQL string }
Migration == [ID : IDs, Description : Descriptions, SQL : Statements]

\* The (description, SQL) pairs the model draws: the reference pair, one that
\* differs in the description, one that differs in the SQL, and the three
\* ways of leaving a field empty.
Contents ==
    { <<"a", "x">>, <<"b", "x">>, <<"a", "y">>, <<"", "x">>, <<"a", "">>, <<"", "">> }

MigrationValues ==
    { m \in Migration : <<m.Description, m.SQL>> \in Contents }

\* The sequences over S of length at most n.
SeqsUpTo(S, n) == UNION { [1 .. k -> S] : k \in 0 .. n }

\* type Migrations []Migration, as the caller may pass it to Migrate.
Candidates == SeqsUpTo(MigrationValues, MaxLen)

----------------------------------------------------------------------------
\* Pure functions of pgmigrate.go

NoErr == [kind |-> "none", id |-> 0, want |-> 0, desc |-> ""]

Err(kind, id, want) == [kind |-> kind, id |-> id, want |-> want, desc |-> ""]

\* fmt.Errorf("%d %s: %s", m.ID, m.Description, err): the error of
\* applyMigrations names the id and the description of the migration.
ErrIn(kind, m) == [kind |-> kind, id |-> m.ID, want |-> 0, desc |-> m.Description]

\* func (m *Migration) Valid() error
MigrationValid(m) ==
    IF m.ID < 1 THEN Err("invalid id", m.ID, 0)
    ELSE IF m.Description = "" THEN Err("missing description", m.ID, 0)
    ELSE IF m.SQL = "" THEN Err("missing sql", m.ID, 0)
    ELSE NoErr

\* Mutant: the loop without the check of the id against the position.
RECURSIVE ValidFromNoIdCheck(_, _)
ValidFromNoIdCheck(ms, i) ==
    IF i > Len(ms) THEN NoErr
    ELSE IF MigrationValid(ms[i]).kind # "none" THEN MigrationValid(ms[i])
    ELSE ValidFromNoIdCheck(ms, i + 1)

\* Mutant: the fields of an entry are checked before its id.
RECURSIVE ValidFromFieldsFirst(_, _)
ValidFromFieldsFirst(ms, i) ==
    IF i > Len(ms) THEN NoErr
    ELSE IF MigrationValid(ms[i]).kind # "none" THEN MigrationValid(ms[i])
    ELSE IF ms[i].ID # i THEN Err("unexpected migration id", ms[i].ID, i)
    ELSE ValidFromFieldsFirst(ms, i + 1)

\* func (m Migrations) Valid() error: the loop from index i (1-based here,
\* so the wanted id of position i is i).
RECURSIVE ValidFrom(_, _)
ValidFrom(ms, i) ==
    IF i > Len(ms) THEN NoErr
    ELSE IF ms[i].ID # i THEN Err("unexpected migration id", ms[i].ID, i)
    ELSE IF MigrationValid(ms[i]).kind # "none" THEN MigrationValid(ms[i])
    ELSE ValidFrom(ms, i + 1)

\* Mutant: Valid sorts by id before it checks the ids, so a dense sequence
\* passes in any order.
MigrationsValidSorted(ms) ==
    IF { ms[i].ID : i \in 1 .. Len(ms) } # 1 .. Len(ms)
        THEN Err("unexpected migration id", 0, 0)
    ELSE IF \E i \in 1 .. Len(ms) : MigrationValid(ms[i]).kind # "none"
        THEN MigrationValid(ms[CHOOSE i \in 1 .. Len(ms) : MigrationValid(ms[i]).kind # "none"])
    ELSE NoErr

MigrationsValid(ms) == ValidFrom(ms, 1)

\* Mutant: the whole candidate is returned, not what is left of it.
RECURSIVE verifyWholeFrom(_, _, _)
verifyWholeFrom(hist, ms, all) ==
    IF hist = <<>> THEN [err |-> NoErr, rest |-> all]
    ELSE IF Len(ms) = 0
        THEN [err |-> Err("unknown migration", Head(hist).ID, 0), rest |-> <<>>]
    ELSE IF Head(hist) # Head(ms)
        THEN [err |-> Err("modified migration", Head(hist).ID, 0), rest |-> <<>>]
    ELSE verifyWholeFrom(Tail(hist), Tail(ms), all)

verifyWhole(hist, ms) == verifyWholeFrom(hist, ms, ms)

\* Mutant: rows are compared by id and SQL; the description is left out.
RECURSIVE verifyIgnoreDescription(_, _)
verifyIgnoreDescription(hist, ms) ==
    IF hist = <<>> THEN [err |-> NoErr, rest |-> ms]
    ELSE IF Len(ms) = 0
        THEN [err |-> Err("unknown migration", Head(hist).ID, 0), rest |-> <<>>]
    ELSE IF Head(hist).ID # Head(ms).ID \/ Head(hist).SQL # Head(ms).SQL
        THEN [err |-> Err("modified migration", Head(hist).ID, 0), rest |-> <<>>]
    ELSE verifyIgnoreDescription(Tail(hist), Tail(ms))

\* Mutant: rows are compared by id alone.
RECURSIVE verifyIdsOnly(_, _)
verifyIdsOnly(hist, ms) ==
    IF hist = <<>> THEN [err |-> NoErr, rest |-> ms]
    ELSE IF Len(ms) = 0
        THEN [err |-> Err("unknown migration", Head(hist).ID, 0), rest |-> <<>>]
    ELSE IF Head(hist).ID # Head(ms).ID
        THEN [err |-> Err("modified migration", Head(hist).ID, 0), rest |-> <<>>]
    ELSE verifyIdsOnly(Tail(hist), Tail(ms))

\* Mutant: no check for a candidate that is exhausted while rows remain.
RECURSIVE verifyNoLenCheck(_, _)
verifyNoLenCheck(hist, ms) ==
    IF hist = <<>> \/ Len(ms) = 0 THEN [err |-> NoErr, rest |-> ms]
    ELSE IF Head(hist) # Head(ms)
        THEN [err |-> Err("modified migration", Head(hist).ID, 0), rest |-> <<>>]
    ELSE verifyNoLenCheck(Tail(hist), Tail(ms))

\* Mutant: the lengths are compared before the rows, so a candidate shorter
\* than the history is always reported as unknown.
RECURSIVE verifyLenFirstLoop(_, _)
verifyLenFirstLoop(hist, ms) ==
    IF hist = <<>> THEN [err |-> NoErr, rest |-> ms]
    ELSE IF Head(hist) # Head(ms)
        THEN [err |-> Err("modified migration", Head(hist).ID, 0), rest |-> <<>>]
    ELSE verifyLenFirstLoop(Tail(hist), Tail(ms))

verifyLenFirst(hist, ms) ==
    IF Len(ms) < Len(hist)
        THEN [err |-> Err("unknown migration", hist[Len(ms) + 1].ID, 0), rest |-> <<>>]
        ELSE verifyLenFirstLoop(hist, ms)

\* The loop of verifyMigrations over the rows read from the table.
RECURSIVE verifyMigrations(_, _)
verifyMigrations(hist, ms) ==
    IF hist = <<>> THEN [err |-> NoErr, rest |-> ms]
    ELSE IF Len(ms) = 0
        THEN [err |-> Err("unknown migration", Head(hist).ID, 0), rest |-> <<>>]
    ELSE IF Head(hist) # Head(ms)
        THEN [err |-> Err("modified migration", Head(hist).ID, 0), rest |-> <<>>]
    ELSE verifyMigrations(Tail(hist), Tail(ms))

\* SELECT ... ORDER BY id ASC: every ordering of the rows that ascends by id
\* (rows of equal id come in an order the database picks).
Orderings(rows) ==
    LET n == Len(rows)
        perms == { f \in [1 .. n -> 1 .. n] : \A i, j \in 1 .. n : i # j => f[i] # f[j] }
    IN  { [i \in 1 .. n |-> rows[f[i]]] : f \in
            { g \in perms : \A i, j \in 1 .. n : i < j => rows[g[i]].ID <= rows[g[j]].ID } }

-----------------------------------------------------------------------------
\* LoadMigrations: file names, the name pattern, the id parser

\* Most leading digits of a file name.
MaxDigits == 3

\* Most files in the directory.
MaxFiles == 2

\* A text is a sequence of characters; a character is a string of length one.
DigitChars == <<"0", "1", "2", "3", "4", "5", "6", "7", "8", "9">>

IsDigit(c) == \E i \in 1 .. Len(DigitChars) : DigitChars[i] = c

DigitValue(c) == (CHOOSE i \in 1 .. Len(DigitChars) : DigitChars[i] = c) - 1

SetMax(S) == CHOOSE x \in S : \A y \in S : y <= x

\* The file names of the model: up to MaxDigits leading digits, then nothing
\* or "_a", then ".sql", "asql" or ".txt".
LeadDigits == {"0", "1"}
Middles == { <<>>, <<"_", "a">> }
Endings == { <<".", "s", "q", "l">>, <<"a", "s", "q", "l">>, <<".", "t", "x", "t">> }
FileNames ==
    { d \o m \o e : d \in SeqsUpTo(LeadDigits, MaxDigits), m \in Middles, e \in Endings }

\* strings.HasSuffix
EndsWith(s, t) ==
    /\ Len(s) >= Len(t)
    /\ SubSeq(s, Len(s) - Len(t) + 1, Len(s)) = t

\* nameRegexp.FindStringSubmatch(name) for ^([\d]+).+.sql$ : the group takes
\* as many leading digits as leave a match for the rest, which is one or more
\* characters, one more character (the dot is not escaped) and "sql" at the
\* end. No match is the empty result. (No name of the model holds a newline,
\* the one character a dot does not match.)
FindStringSubmatch(name) ==
    LET ks == { k \in 1 .. Len(name) :
                  /\ \A i \in 1 .. k : IsDigit(name[i])
                  /\ Len(name) - k >= 1 + 1 + 3
                  /\ EndsWith(name, <<"s", "q", "l">>) }
    IN  IF ks = {} THEN <<>> ELSE <<name, SubSeq(name, 1, SetMax(ks))>>

\* strconv.ParseInt(tok, base, 64) on digits of that base.
RECURSIVE ParseInt(_, _)
ParseInt(tok, base) ==
    IF tok = <<>>
        THEN 0
        ELSE ParseInt(SubSeq(tok, 1, Len(tok) - 1), base) * base + DigitValue(tok[Len(tok)])

\* fmt.Sscan(text, &m.ID): the verb is %v, so the scanner reads a base
\* prefix. A text that starts with "0" is read as octal: the token is the
\* "0" and the octal digits that follow, and what is left is not looked at.
\* Any other text of digits is decimal. (The digit texts of the model stay
\* far below 2^63, so ParseInt never reports a range error.)
Sscan(text) ==
    IF text[1] = "0"
        THEN LET ks == { k \in 1 .. Len(text) : \A i \in 1 .. k : DigitValue(text[i]) < 8 }
             IN  ParseInt(SubSeq(text, 1, SetMax(ks)), 8)
        ELSE ParseInt(text, 10)

\* What LoadMigrations returns: (Migrations, error).
NoLoad == [state |-> "none", err |-> "none", at |-> 0, ms |-> <<>>]

LoadError(kind, i) == [state |-> "returned", err |-> kind, at |-> i, ms |-> <<>>]

\* The loop of LoadMigrations from file i on; the files in unreadable are
\* those whose readFile fails. A name that does not match is skipped; the
\* first matching file that cannot be read ends the loop with an error.
RECURSIVE LoadFrom(_, _, _)
LoadFrom(fs, i, unreadable) ==
    IF i > Len(fs)
        THEN [state |-> "returned", err |-> "none", at |-> 0, ms |-> <<>>]
        ELSE LET match == FindStringSubmatch(fs[i].name)
             IN  IF Len(match) # 2
                     THEN LoadFrom(fs, i + 1, unreadable)
                     ELSE IF i \in unreadable
                         THEN LoadError("could not read migration", i)
                         ELSE LET m == [ID |-> Sscan(match[2]),
                                        Description |-> fs[i].name,
                                        SQL |-> fs[i].data]
                                  r == LoadFrom(fs, i + 1, unreadable)
                              IN  IF r.err # "none"
                                      THEN r
                                      ELSE [r EXCEPT !.ms = <<m>> \o r.ms]

-----------------------------------------------------------------------------
\* quoteIdentifier and Config.table

\* Longest schema or table name.
MaxName == 3

\* The double quote and the NUL character (rune 0).
DQ == "\""
NUL == "NUL"

\* The characters of the configured names: a letter, a double quote, a NUL.
NameChars == {"a", DQ, NUL}

Names == SeqsUpTo(NameChars, MaxName)

\* type Config struct { Schema string; Table string }
Configs == [Schema : Names, Table : Names]

\* var DefaultConfig = Config{Schema: "migrations", Table: "migrations"}
DefaultConfig ==
    [Schema |-> <<"m", "i", "g", "r", "a", "t", "i", "o", "n", "s">>,
     Table |-> <<"m", "i", "g", "r", "a", "t", "i", "o", "n", "s">>]

\* strings.IndexRune(s, c): the 0-based index of the first c, or -1.
IndexRune(s, c) ==
    IF \E i \in 1 .. Len(s) : s[i] = c
        THEN (CHOOSE i \in 1 .. Len(s) : s[i] = c /\ \A j \in 1 .. (i - 1) : s[j] # c) - 1
        ELSE -1

\* strings.Replace(s, old, new, -1) for a one-character old.
RECURSIVE Replace(_, _, _)
Replace(s, old, new) ==
    IF s = <<>>
        THEN <<>>
        ELSE (IF Head(s) = old THEN new ELSE <<Head(s)>>) \o Replace(Tail(s), old, new)

\* Mutant: the embedded double quotes are not doubled.
quoteIdentifierNoDoubling(name) ==
    LET end == IndexRune(name, NUL)
        cut == IF end > -1 THEN SubSeq(name, 1, end) ELSE name
    IN  <<DQ>> \o cut \o <<DQ>>

\* func quoteIdentifier(name string) string
quoteIdentifier(name) ==
    LET end == IndexRune(name, NUL)
        cut == IF end > -1 THEN SubSeq(name, 1, end) ELSE name
    IN  <<DQ>> \o Replace(cut, DQ, <<DQ, DQ>>) \o <<DQ>>

\* func (c *Config) table() string
table(c) == quoteIdentifier(c.Schema) \o <<".">> \o quoteIdentifier(c.Table)

\* No text built yet.
NoQuoted == [schema |-> <<>>, table |-> <<>>]

-----------------------------------------------------------------------------
VARIABLES
    dbStore,    \* durable: the bookkeeping schema and table exist
    dbRows,     \* durable: the bookkeeping rows, in insertion order
    dbSchema,   \* durable: the migrations whose statements took effect, in order
    pc,         \* per invocation: position in Migrate
    ms,         \* per invocation: the candidate sequence passed to Migrate
    txOpen,     \* per invocation: its transaction is open
    txStore,    \* per invocation: the transaction created the bookkeeping store
    txRows,     \* per invocation: rows the transaction inserted, uncommitted
    txSchema,   \* per invocation: statements the transaction executed, uncommitted
    hist,       \* per invocation: the rows returned by the history query
    rest,       \* per invocation: the suffix returned by verifyMigrations
    idx,        \* per invocation: loop index of applyMigrations (1-based)
    result,     \* per invocation: what Migrate returns
    pre,        \* per invocation: the durable state when Migrate was called
    execLog,    \* per invocation: every statement it executed, in order
    insLog,     \* per invocation: every bookkeeping row it inserted, in order
    orig,       \* the bookkeeping rows as the last commit left them
    tampers,    \* how many times the table was changed behind the system's back
    files,      \* the source directory: its files in the order Readdir lists them
    loaded,     \* what LoadMigrations returned
    cfg,        \* the Config the caller uses
    quoted      \* the identifier texts init and table() built from cfg

dbVars == <<dbStore, dbRows, dbSchema>>
txVars == <<txOpen, txStore, txRows, txSchema>>
ioVars == <<files, loaded, cfg, quoted>>
migrateVars == <<dbStore, dbRows, dbSchema, pc, ms, txOpen, txStore, txRows, txSchema,
                 hist, rest, idx, result, pre, execLog, insLog, orig, tampers>>
vars == <<migrateVars, ioVars>>

NoResult == [err |-> NoErr, applied |-> <<>>]

Durable == [store |-> dbStore, rows |-> dbRows, schema |-> dbSchema, orig |-> orig]

NoDurable == [store |-> FALSE, rows |-> <<>>, schema |-> <<>>, orig |-> <<>>]

Init ==
    /\ dbStore = FALSE
    /\ dbRows = <<>>
    /\ dbSchema = <<>>
    /\ pc = [p \in Procs |-> "idle"]
    /\ ms = [p \in Procs |-> <<>>]
    /\ txOpen = [p \in Procs |-> FALSE]
    /\ txStore = [p \in Procs |-> FALSE]
    /\ txRows = [p \in Procs |-> <<>>]
    /\ txSchema = [p \in Procs |-> <<>>]
    /\ hist = [p \in Procs |-> <<>>]
    /\ rest = [p \in Procs |-> <<>>]
    /\ idx = [p \in Procs |-> 1]
    /\ result = [p \in Procs |-> NoResult]
    /\ pre = [p \in Procs |-> NoDurable]
    /\ execLog = [p \in Procs |-> <<>>]
    /\ insLog = [p \in Procs |-> <<>>]
    /\ orig = <<>>
    /\ tampers = 0
    /\ files = <<>>
    /\ loaded = NoLoad
    /\ cfg = DefaultConfig
    /\ quoted = NoQuoted

\* An error return: `return nil, err`.
Fail(p, e, to) ==
    /\ result' = [result EXCEPT ![p] = [err |-> e, applied |-> <<>>]]
    /\ pc' = [pc EXCEPT ![p] = to]

\* Mutant: Migrate goes on to Begin without validating the candidate.
MigrateNoValidation(p, cands) ==
    /\ pc[p] = "idle"
    /\ \E c \in cands : ms' = [ms EXCEPT ![p] = c]
    /\ pc' = [pc EXCEPT ![p] = "validated"]
    /\ pre' = [pre EXCEPT ![p] = Durable]
    /\ UNCHANGED <<dbVars, txVars, hist, rest, idx, result, execLog, insLog, orig, tampers, ioVars>>

\* Migrate is called with some candidate c of the set cands; ms.Valid() runs
\* first.
MigrateWith(p, cands) ==
    /\ pc[p] = "idle"
    /\ \E c \in cands :
          /\ ms' = [ms EXCEPT ![p] = c]
          /\ IF MigrationsValid(c).kind # "none"
                THEN Fail(p, MigrationsValid(c), "done")
                ELSE /\ pc' = [pc EXCEPT ![p] = "validated"]
                     /\ UNCHANGED result
    /\ pre' = [pre EXCEPT ![p] = Durable]
    /\ UNCHANGED <<dbVars, txVars, hist, rest, idx, execLog, insLog, orig, tampers, ioVars>>

\* The caller passes any sequence of migrations.
MigrateCall(p) == MigrateWith(p, Candidates)

\* tx, err := db.Begin()
Begin(p) ==
    /\ pc[p] = "validated"
    /\ \/ /\ txOpen' = [txOpen EXCEPT ![p] = TRUE]
          /\ pc' = [pc EXCEPT ![p] = "txopen"]
          /\ UNCHANGED result
       \/ /\ Fail(p, Err("begin", 0, 0), "done")
          /\ UNCHANGED txOpen
    /\ UNCHANGED <<dbVars, ms, txStore, txRows, txSchema, hist, rest, idx, pre,
                   execLog, insLog, orig, tampers, ioVars>>

\* c.init(tx): CREATE SCHEMA IF NOT EXISTS ...; CREATE TABLE IF NOT EXISTS ...
\* While another transaction has created the store and not yet ended, the
\* statement waits for it.
InitStore(p) ==
    /\ pc[p] = "txopen"
    /\ \/ /\ \A q \in Procs \ {p} : ~txStore[q]
          /\ txStore' = [txStore EXCEPT ![p] = ~dbStore]
          /\ pc' = [pc EXCEPT ![p] = "storeensured"]
          /\ UNCHANGED result
       \/ /\ Fail(p, Err("init", 0, 0), "failed")
          /\ UNCHANGED txStore
    /\ UNCHANGED <<dbVars, ms, txOpen, txRows, txSchema, hist, rest, idx, pre,
                   execLog, insLog, orig, tampers, ioVars>>

\* Mutant: the query reads no row (it selects from another table).
QueryHistoryEmpty(p) ==
    /\ pc[p] = "storeensured"
    /\ \/ /\ hist' = [hist EXCEPT ![p] = <<>>]
          /\ pc' = [pc EXCEPT ![p] = "historyread"]
          /\ UNCHANGED result
       \/ /\ Fail(p, Err("query", 0, 0), "failed")
          /\ UNCHANGED hist
    /\ UNCHANGED <<dbVars, txVars, ms, rest, idx, pre, execLog, insLog, orig, tampers, ioVars>>

\* rows, err := tx.Query("SELECT id, description, sql FROM ... ORDER BY id ASC")
QueryHistory(p) ==
    /\ pc[p] = "storeensured"
    /\ \/ /\ \E h \in Orderings(dbRows \o txRows[p]) :
                hist' = [hist EXCEPT ![p] = h]
          /\ pc' = [pc EXCEPT ![p] = "historyread"]
          /\ UNCHANGED result
       \/ /\ Fail(p, Err("query", 0, 0), "failed")
          /\ UNCHANGED hist
    /\ UNCHANGED <<dbVars, txVars, ms, rest, idx, pre, execLog, insLog, orig, tampers, ioVars>>

\* Mutant: the suffix that verifyMigrations returns is dropped and the whole
\* candidate goes to applyMigrations.
VerifyRowsKeepAll(p) ==
    /\ pc[p] = "historyread"
    /\ LET v == verifyMigrations(hist[p], ms[p])
       IN  \/ /\ v.err.kind = "none"
              /\ rest' = [rest EXCEPT ![p] = ms[p]]
              /\ idx' = [idx EXCEPT ![p] = 1]
              /\ pc' = [pc EXCEPT ![p] = "apply"]
              /\ UNCHANGED result
           \/ /\ v.err.kind # "none"
              /\ Fail(p, v.err, "failed")
              /\ UNCHANGED <<rest, idx>>
           \/ /\ Fail(p, Err("scan", 0, 0), "failed")
              /\ UNCHANGED <<rest, idx>>
    /\ UNCHANGED <<dbVars, txVars, ms, hist, pre, execLog, insLog, orig, tampers, ioVars>>

\* The rows.Next() loop of verifyMigrations, rows.Scan and rows.Err included.
VerifyRows(p) ==
    /\ pc[p] = "historyread"
    /\ LET v == verifyMigrations(hist[p], ms[p])
       IN  \/ /\ v.err.kind = "none"
              /\ rest' = [rest EXCEPT ![p] = v.rest]
              /\ idx' = [idx EXCEPT ![p] = 1]
              /\ pc' = [pc EXCEPT ![p] = "apply"]
              /\ UNCHANGED result
           \/ /\ v.err.kind # "none"
              /\ Fail(p, v.err, "failed")
              /\ UNCHANGED <<rest, idx>>
           \/ /\ Fail(p, Err("scan", 0, 0), "failed")
              /\ UNCHANGED <<rest, idx>>
    /\ UNCHANGED <<dbVars, txVars, ms, hist, pre, execLog, insLog, orig, tampers, ioVars>>

\* Mutant: the statement runs on the connection pool (db.Exec), outside the
\* transaction, and is durable at once.
ExecStatementOnDb(p) ==
    /\ pc[p] = "apply"
    /\ idx[p] <= Len(rest[p])
    /\ LET m == rest[p][idx[p]]
       IN  \/ /\ dbSchema' = Append(dbSchema, m)
              /\ execLog' = [execLog EXCEPT ![p] = Append(@, m)]
              /\ pc' = [pc EXCEPT ![p] = "executed"]
              /\ UNCHANGED result
           \/ /\ Fail(p, ErrIn("exec", m), "failed")
              /\ UNCHANGED <<dbSchema, execLog>>
    /\ UNCHANGED <<dbStore, dbRows, ms, txVars, hist, rest, idx, pre, insLog,
                   orig, tampers, ioVars>>

\* Mutant: the error of a failed statement names the first migration of the
\* suffix, not the one that failed.
ExecStatementNamesFirst(p) ==
    /\ pc[p] = "apply"
    /\ idx[p] <= Len(rest[p])
    /\ LET m == rest[p][idx[p]]
       IN  \/ /\ txSchema' = [txSchema EXCEPT ![p] = Append(@, m)]
              /\ execLog' = [execLog EXCEPT ![p] = Append(@, m)]
              /\ pc' = [pc EXCEPT ![p] = "executed"]
              /\ UNCHANGED result
           \/ /\ Fail(p, ErrIn("exec", rest[p][1]), "failed")
              /\ UNCHANGED <<txSchema, execLog>>
    /\ UNCHANGED <<dbVars, ms, txOpen, txStore, txRows, hist, rest, idx, pre, insLog,
                   orig, tampers, ioVars>>

\* applyMigrations, first half of the loop body: tx.Exec(m.SQL)
ExecStatement(p) ==
    /\ pc[p] = "apply"
    /\ idx[p] <= Len(rest[p])
    /\ LET m == rest[p][idx[p]]
       IN  \/ /\ txSchema' = [txSchema EXCEPT ![p] = Append(@, m)]
              /\ execLog' = [execLog EXCEPT ![p] = Append(@, m)]
              /\ pc' = [pc EXCEPT ![p] = "executed"]
              /\ UNCHANGED result
           \/ /\ Fail(p, ErrIn("exec", m), "failed")
              /\ UNCHANGED <<txSchema, execLog>>
    /\ UNCHANGED <<dbVars, ms, txOpen, txStore, txRows, hist, rest, idx, pre, insLog,
                   orig, tampers, ioVars>>

\* Mutant: the error of the INSERT is ignored and the loop goes on.
InsertRowIgnoreErr(p) ==
    /\ pc[p] = "executed"
    /\ LET m == rest[p][idx[p]]
       IN  \/ /\ txRows' = [txRows EXCEPT ![p] = Append(@, m)]
              /\ insLog' = [insLog EXCEPT ![p] = Append(@, m)]
           \/ UNCHANGED <<txRows, insLog>>
    /\ idx' = [idx EXCEPT ![p] = @ + 1]
    /\ pc' = [pc EXCEPT ![p] = "apply"]
    /\ UNCHANGED <<dbVars, ms, txOpen, txStore, txSchema, hist, rest, pre, execLog,
                   result, orig, tampers, ioVars>>

\* applyMigrations, second half of the loop body: the INSERT of the row
InsertRow(p) ==
    /\ pc[p] = "executed"
    /\ LET m == rest[p][idx[p]]
       IN  \/ /\ txRows' = [txRows EXCEPT ![p] = Append(@, m)]
              /\ insLog' = [insLog EXCEPT ![p] = Append(@, m)]
              /\ idx' = [idx EXCEPT ![p] = @ + 1]
              /\ pc' = [pc EXCEPT ![p] = "apply"]
              /\ UNCHANGED result
           \/ /\ Fail(p, ErrIn("insert", m), "failed")
              /\ UNCHANGED <<txRows, insLog, idx>>
    /\ UNCHANGED <<dbVars, ms, txOpen, txStore, txSchema, hist, rest, pre, execLog,
                   orig, tampers, ioVars>>

\* The transaction's write set is dropped.
Discard(p) ==
    /\ txOpen' = [txOpen EXCEPT ![p] = FALSE]
    /\ txStore' = [txStore EXCEPT ![p] = FALSE]
    /\ txRows' = [txRows EXCEPT ![p] = <<>>]
    /\ txSchema' = [txSchema EXCEPT ![p] = <<>>]

\* Mutant: the commit leaves the table with the rows of this transaction
\* only (the rows were rewritten, not appended).
CommitReplace(p) ==
    /\ pc[p] = "apply"
    /\ idx[p] > Len(rest[p])
    /\ \/ /\ dbStore' = (dbStore \/ txStore[p])
          /\ dbRows' = txRows[p]
          /\ dbSchema' = dbSchema \o txSchema[p]
          /\ orig' = txRows[p]
          /\ result' = [result EXCEPT ![p] = [err |-> NoErr, applied |-> rest[p]]]
          /\ pc' = [pc EXCEPT ![p] = "committed"]
       \/ /\ Fail(p, Err("commit", 0, 0), "failed")
          /\ UNCHANGED <<dbVars, orig>>
    /\ Discard(p)
    /\ UNCHANGED <<ms, hist, rest, idx, pre, execLog, insLog, tampers, ioVars>>

\* Mutant: the commit is issued one iteration early.
CommitEarly(p) ==
    /\ pc[p] = "apply"
    /\ idx[p] >= Len(rest[p])
    /\ \/ /\ dbStore' = (dbStore \/ txStore[p])
          /\ dbRows' = dbRows \o txRows[p]
          /\ dbSchema' = dbSchema \o txSchema[p]
          /\ orig' = dbRows \o txRows[p]
          /\ result' = [result EXCEPT ![p] = [err |-> NoErr, applied |-> rest[p]]]
          /\ pc' = [pc EXCEPT ![p] = "committed"]
       \/ /\ Fail(p, Err("commit", 0, 0), "failed")
          /\ UNCHANGED <<dbVars, orig>>
    /\ Discard(p)
    /\ UNCHANGED <<ms, hist, rest, idx, pre, execLog, insLog, tampers, ioVars>>

\* applyMigrations after the loop: tx.Commit(), then `return ms, nil`.
\* A failed commit leaves nothing durable and ends the transaction.
Commit(p) ==
    /\ pc[p] = "apply"
    /\ idx[p] > Len(rest[p])
    /\ \/ /\ dbStore' = (dbStore \/ txStore[p])
          /\ dbRows' = dbRows \o txRows[p]
          /\ dbSchema' = dbSchema \o txSchema[p]
          /\ orig' = dbRows \o txRows[p]
          /\ result' = [result EXCEPT ![p] = [err |-> NoErr, applied |-> rest[p]]]
          /\ pc' = [pc EXCEPT ![p] = "committed"]
       \/ /\ Fail(p, Err("commit", 0, 0), "failed")
          /\ UNCHANGED <<dbVars, orig>>
    /\ Discard(p)
    /\ UNCHANGED <<ms, hist, rest, idx, pre, execLog, insLog, tampers, ioVars>>

\* Mutant: Migrate returns without the deferred Rollback.
ReturnWithoutRollback(p) ==
    /\ pc[p] \in {"failed", "committed"}
    /\ pc' = [pc EXCEPT ![p] = "done"]
    /\ UNCHANGED <<dbVars, txVars, ms, hist, rest, idx, result, pre, execLog, insLog,
                   orig, tampers, ioVars>>

\* defer tx.Rollback(): runs on every return after Begin succeeded; it is a
\* no-op on a transaction that Commit already ended.
DeferredRollback(p) ==
    /\ pc[p] \in {"failed", "committed"}
    /\ Discard(p)
    /\ pc' = [pc EXCEPT ![p] = "done"]
    /\ UNCHANGED <<dbVars, ms, hist, rest, idx, result, pre, execLog, insLog, orig, tampers, ioVars>>

\* The caller has the result; the invocation's locals are gone.
Return(p) ==
    /\ pc[p] = "done"
    /\ pc' = [pc EXCEPT ![p] = "idle"]
    /\ ms' = [ms EXCEPT ![p] = <<>>]
    /\ hist' = [hist EXCEPT ![p] = <<>>]
    /\ rest' = [rest EXCEPT ![p] = <<>>]
    /\ idx' = [idx EXCEPT ![p] = 1]
    /\ result' = [result EXCEPT ![p] = NoResult]
    /\ pre' = [pre EXCEPT ![p] = NoDurable]
    /\ execLog' = [execLog EXCEPT ![p] = <<>>]
    /\ insLog' = [insLog EXCEPT ![p] = <<>>]
    /\ UNCHANGED <<dbVars, txVars, orig, tampers, ioVars>>

----------------------------------------------------------------------------
\* The environment of the tampering claims: somebody changes the bookkeeping
\* table outside Migrate, and the caller keeps presenting the sequence that
\* the system has recorded (possibly with new migrations at its end).

\* At most this many changes are made behind the system's back.
MaxTampers == 1

IsPrefix(s, t) == Len(s) <= Len(t) /\ SubSeq(t, 1, Len(s)) = s

RemoveAt(s, i) == SubSeq(s, 1, i - 1) \o SubSeq(s, i + 1, Len(s))

\* What a bookkeeping row can be rewritten to.
RowValues ==
    { m \in MigrationValues : m.ID \in 1 .. MaxLen /\ m.Description # "" /\ m.SQL # "" }

\* The candidates that pass Valid and start with the history the system has
\* recorded.
Originals ==
    { c \in SeqsUpTo(RowValues, MaxLen) :
        MigrationsValid(c).kind = "none" /\ IsPrefix(orig, c) }

MigrateOriginal(p) == MigrateWith(p, Originals)

\* DELETE or UPDATE of one bookkeeping row by somebody else, between two
\* invocations.
Tamper ==
    /\ \A p \in Procs : pc[p] = "idle"
    /\ tampers < MaxTampers
    /\ tampers' = tampers + 1
    /\ \E i \in 1 .. Len(dbRows) :
          \/ dbRows' = RemoveAt(dbRows, i)
          \/ \E r \in RowValues \ {dbRows[i]} : dbRows' = [dbRows EXCEPT ![i] = r]
    /\ UNCHANGED <<dbStore, dbSchema, pc, ms, txVars, hist, rest, idx, result, pre,
                   execLog, insLog, orig, ioVars>>

Next ==
    \E p \in Sequential :
        \/ MigrateCall(p)
        \/ Begin(p)
        \/ InitStore(p)
        \/ QueryHistory(p)
        \/ VerifyRows(p)
        \/ ExecStatement(p)
        \/ InsertRow(p)
        \/ Commit(p)
        \/ DeferredRollback(p)
        \/ Return(p)

Spec == Init /\ [][Next]_vars

NextTamper ==
    \/ Tamper
    \/ \E p \in Sequential :
          \/ MigrateOriginal(p)
          \/ Begin(p)
          \/ InitStore(p)
          \/ QueryHistory(p)
          \/ VerifyRows(p)
          \/ ExecStatement(p)
          \/ InsertRow(p)
          \/ Commit(p)
          \/ DeferredRollback(p)
          \/ Return(p)

SpecTamper == Init /\ [][NextTamper]_vars

----------------------------------------------------------------------------
\* Concurrent invocations: each runs in its own transaction, reads what is
\* committed when its statement starts plus its own writes, and nothing in
\* Migrate makes one wait for the other once the store exists.

\* Longest candidate sequence of the concurrent invocations.
MaxConcurrentLen == 1

\* Another invocation is inside Migrate.
Running(q) == pc[q] \notin {"idle", "done"}

\* The callers present the same sequence: the one of the invocation that is
\* running, or else one that starts with the recorded history.
ConcurrentInputs(p) ==
    IF \E q \in Procs \ {p} : Running(q)
        THEN { ms[q] : q \in { r \in Procs \ {p} : Running(r) } }
        ELSE { c \in Originals : Len(c) <= MaxConcurrentLen }

MigrateConcurrent(p) == MigrateWith(p, ConcurrentInputs(p))

NextConcurrent ==
    \E p \in Procs :
        \/ MigrateConcurrent(p)
        \/ Begin(p)
        \/ InitStore(p)
        \/ QueryHistory(p)
        \/ VerifyRows(p)
        \/ ExecStatement(p)
        \/ InsertRow(p)
        \/ Commit(p)
        \/ DeferredRollback(p)
        \/ Return(p)

SpecConcurrent == Init /\ [][NextConcurrent]_vars

-----------------------------------------------------------------------------
\* The source directory and LoadMigrations

\* The content of the i-th file written: the text "SELECT i".
FileData(i) == i

\* ioutil.WriteFile(filepath.Join(dir, name), data, 0600): one more file, under
\* a name the directory does not hold yet. Readdir may list it anywhere.
WriteFile ==
    /\ loaded = NoLoad
    /\ Len(files) < MaxFiles
    /\ \E name \in FileNames :
          /\ \A i \in 1 .. Len(files) : files[i].name # name
          /\ \E k \in 0 .. Len(files) :
                files' = SubSeq(files, 1, k)
                            \o <<[name |-> name, data |-> FileData(Len(files) + 1)]>>
                            \o SubSeq(files, k + 1, Len(files))
    /\ UNCHANGED <<migrateVars, loaded, cfg, quoted>>

\* LoadMigrations(dirFS): Open and Readdir, the loop over the files, and
\* sort.Sort, which orders by ID and may leave equal IDs in either order.
LoadMigrations ==
    /\ loaded = NoLoad
    /\ \/ loaded' = LoadError("readdir", 0)
       \/ \E unreadable \in SUBSET (1 .. Len(files)) :
             LET r == LoadFrom(files, 1, unreadable)
             IN  \E sorted \in Orderings(r.ms) :
                    loaded' = [r EXCEPT !.ms = sorted]
    /\ UNCHANGED <<migrateVars, files, cfg, quoted>>

NextLoad ==
    \/ WriteFile
    \/ LoadMigrations

SpecLoad == Init /\ [][NextLoad]_vars

-----------------------------------------------------------------------------
\* The configured names and the identifier texts built from them

\* The caller fills in a Config instead of using DefaultConfig.
Configure ==
    /\ cfg = DefaultConfig
    /\ quoted = NoQuoted
    /\ \E c \in Configs : cfg' = c
    /\ UNCHANGED <<migrateVars, files, loaded, quoted>>

\* init: CREATE SCHEMA IF NOT EXISTS ` + quoteIdentifier(c.Schema) + `;
QuoteSchema ==
    /\ quoted.schema = <<>>
    /\ quoted' = [quoted EXCEPT !.schema = quoteIdentifier(cfg.Schema)]
    /\ UNCHANGED <<migrateVars, files, loaded, cfg>>

\* c.table(), in init, verifyMigrations and applyMigrations.
TableName ==
    /\ quoted.table = <<>>
    /\ quoted' = [quoted EXCEPT !.table = table(cfg)]
    /\ UNCHANGED <<migrateVars, files, loaded, cfg>>

NextQuote ==
    \/ Configure
    \/ QuoteSchema
    \/ TableName

SpecQuote == Init /\ [][NextQuote]_vars

----------------------------------------------------------------------------
\* Vocabulary of the claims

\* The errors of Migrations.Valid.
StructuralKinds ==
    {"unexpected migration id", "invalid id", "missing description", "missing sql"}

\* The errors of the verification loop.
VerifierKinds == {"unknown migration", "modified migration"}

\* The database refused Begin, the store creation, the history query or a row.
StoreFailKinds == {"begin", "init", "query", "scan"}

\* The database refused a migration statement, a bookkeeping insert or Commit.
ApplyFailKinds == {"exec", "insert", "commit"}

Returned(p) == pc[p] = "done"

\* The durable state is what it was when Migrate was called.
DurableUnchanged(p) ==
    /\ dbStore = pre[p].store
    /\ dbRows = pre[p].rows
    /\ dbSchema = pre[p].schema

\* Nothing was executed and no row was written by this invocation.
NothingApplied(p) == execLog[p] = <<>> /\ insLog[p] = <<>>

\* Ids 1..N in the order given, every description and statement non-empty.
WellFormed(c) ==
    \A i \in 1 .. Len(c) : c[i].ID = i /\ c[i].Description # "" /\ c[i].SQL # ""

FieldsValid(c) ==
    \A i \in 1 .. Len(c) : c[i].ID >= 1 /\ c[i].Description # "" /\ c[i].SQL # ""

IdSet(c) == { c[i].ID : i \in 1 .. Len(c) }

SetMin(S) == CHOOSE x \in S : \A y \in S : x <= y

\* The positions at which the rows read and the candidate both have an entry
\* and the two differ.
Differing(p) ==
    { i \in 1 .. Len(hist[p]) : i <= Len(ms[p]) /\ hist[p][i] # ms[p][i] }

\* Valid let the candidate of this invocation pass.
Accepted(p) == pc[p] # "idle" /\ result[p].err.kind \notin StructuralKinds

----------------------------------------------------------------------------
\* C1. Atomicity: when Migrate has returned an error, whatever step failed,
\* the durable state (bookkeeping store, bookkeeping rows, effects of the
\* migration statements) is exactly the durable state at the call, and the
\* transaction's writes are gone.
Atomicity ==
    \A p \in Procs :
        (Returned(p) /\ result[p].err.kind # "none") =>
            /\ DurableUnchanged(p)
            /\ ~txOpen[p] /\ ~txStore[p] /\ txRows[p] = <<>> /\ txSchema[p] = <<>>

\* The second of two migrations failed after the first was executed and
\* recorded inside the transaction.
AtomicityWitness ==
    \E p \in Procs :
        /\ Returned(p)
        /\ Len(ms[p]) = 2
        /\ result[p].err = ErrIn("exec", ms[p][2])
        /\ pre[p].rows = <<>>
        /\ Len(execLog[p]) = 1 /\ Len(insLog[p]) = 1
        /\ dbRows = <<>> /\ dbSchema = <<>>

\* C2. Suffix application: when the recorded history is the first k entries
\* of a well-formed candidate, Migrate never fails in the validator or the
\* verifier, and when no database operation fails it executes, records and
\* returns exactly candidate[k+1..N], in that order, and leaves the recorded
\* history, ordered by id, equal to the candidate.
SuffixApplication ==
    \A p \in Procs :
        (Returned(p) /\ WellFormed(ms[p]) /\ IsPrefix(pre[p].rows, ms[p])) =>
            LET suffix == SubSeq(ms[p], Len(pre[p].rows) + 1, Len(ms[p]))
            IN  /\ result[p].err.kind \notin (StructuralKinds \cup VerifierKinds)
                /\ result[p].err.kind = "none" =>
                      /\ result[p].applied = suffix
                      /\ execLog[p] = suffix
                      /\ insLog[p] = suffix
                      /\ Orderings(dbRows) = { ms[p] }
                      /\ dbSchema = pre[p].schema \o suffix

SuffixApplicationWitness ==
    \E p \in Procs :
        /\ Returned(p)
        /\ result[p].err.kind = "none"
        /\ Len(pre[p].rows) = 1
        /\ Len(ms[p]) = 2
        /\ result[p].applied = <<ms[p][2]>>
        /\ dbRows = ms[p]

\* C3 as stated: whichever recorded row differs from the candidate entry at
\* its position, the 'modified migration' error names that row.
ModifiedNamesAnyRow ==
    \A p \in Procs :
        (Returned(p) /\ WellFormed(ms[p]) /\ result[p].err.kind \notin StoreFailKinds) =>
            \A i \in Differing(p) :
                /\ result[p].err = Err("modified migration", hist[p][i].ID, 0)
                /\ NothingApplied(p)

\* C3, amended. Modified-migration detection: if some recorded row differs
\* from the candidate entry at its position, Migrate (given a candidate that
\* passes validation, and the store and the history being readable) fails
\* with the 'modified migration' error naming the id of the first such row in
\* recorded order, executes no statement and writes no row.
ModifiedNamesFirstRow ==
    \A p \in Procs :
        (Returned(p) /\ WellFormed(ms[p]) /\ result[p].err.kind \notin StoreFailKinds
           /\ Differing(p) # {}) =>
            /\ result[p].err =
                  Err("modified migration", hist[p][SetMin(Differing(p))].ID, 0)
            /\ NothingApplied(p)
            /\ DurableUnchanged(p)

\* Two recorded rows, the candidate differs from the first in the description
\* and from the second in the statement.
ModifiedWitness ==
    \E p \in Procs :
        /\ Returned(p)
        /\ Differing(p) = {1, 2}
        /\ hist[p][1].Description # ms[p][1].Description
        /\ hist[p][2].SQL # ms[p][2].SQL
        /\ result[p].err = Err("modified migration", 1, 0)

\* C4. Unknown-recorded-migration detection: a candidate (possibly empty)
\* equal to a proper prefix of the recorded history makes Migrate fail with
\* 'unknown migration' naming the first recorded row beyond the candidate,
\* and nothing is applied.
UnknownDetected ==
    \A p \in Procs :
        (Returned(p) /\ IsPrefix(ms[p], pre[p].rows) /\ Len(ms[p]) < Len(pre[p].rows)
           /\ result[p].err.kind \notin StoreFailKinds) =>
            /\ result[p].err =
                  Err("unknown migration", pre[p].rows[Len(ms[p]) + 1].ID, 0)
            /\ NothingApplied(p)
            /\ DurableUnchanged(p)

UnknownWitness ==
    \E p \in Procs :
        /\ Returned(p)
        /\ Len(pre[p].rows) = 2
        /\ ms[p] = <<pre[p].rows[1]>>
        /\ result[p].err = Err("unknown migration", 2, 0)

\* C5. Idempotence: Migrate called with a sequence that is recorded in full
\* executes no statement, inserts no row and leaves rows and schema effects
\* as they were; unless a database operation fails it returns no error and
\* an empty applied list. (The state after such a call is the state before
\* it, so the same holds for any number of calls in a row.)
Idempotence ==
    \A p \in Procs :
        (Returned(p) /\ pre[p].rows = ms[p]) =>
            /\ NothingApplied(p)
            /\ dbRows = pre[p].rows
            /\ dbSchema = pre[p].schema
            /\ result[p].applied = <<>>
            /\ result[p].err.kind \in {"none"} \cup StoreFailKinds \cup {"commit"}

IdempotenceWitness ==
    \E p \in Procs :
        /\ Returned(p)
        /\ Len(ms[p]) = 2
        /\ pre[p].rows = ms[p]
        /\ result[p].err.kind = "none"
        /\ dbRows = ms[p]

\* C6 as stated: a sequence is accepted if and only if its fields are valid
\* and its ids, sorted, are 1..N - in whatever order it is presented.
ValidatorSortsFirst ==
    \A p \in Procs :
        pc[p] # "idle" =>
            (Accepted(p) <=>
                (FieldsValid(ms[p]) /\ IdSet(ms[p]) = 1 .. Len(ms[p])))

\* C6, amended. Validator density rule: validate accepts a sequence of
\* length N if and only if every entry has a non-empty description and a
\* non-empty statement and the ids in the order presented are 1..N (the
\* entry at position i has id i); Valid does not sort, so a sequence with the
\* dense ids 1..N is accepted only in ascending order, and a sequence with a
\* missing id, a duplicate id or a first id above 1 is rejected.
ValidatorInOrder ==
    \A p \in Procs :
        pc[p] # "idle" =>
            /\ Accepted(p) <=> WellFormed(ms[p])
            /\ (IdSet(ms[p]) # 1 .. Len(ms[p])) => ~Accepted(p)

\* The dense ids 1, 2 with valid fields, presented as 2, 1, are rejected.
ValidatorWitness ==
    \E p \in Procs :
        /\ Returned(p)
        /\ Len(ms[p]) = 2
        /\ FieldsValid(ms[p])
        /\ ms[p][1].ID = 2 /\ ms[p][2].ID = 1
        /\ result[p].err = Err("unexpected migration id", 2, 1)

\* C7. Validation precedes all database interaction: an invocation whose
\* candidate is not well-formed is never anywhere but at its return with a
\* structural error: it has no transaction, created, read, executed and
\* inserted nothing, and the durable state is untouched - also when the
\* recorded history would not verify against the candidate.
ValidationFirst ==
    \A p \in Procs :
        (pc[p] # "idle" /\ ~WellFormed(ms[p])) =>
            /\ Returned(p)
            /\ result[p].err.kind \in StructuralKinds
            /\ ~txOpen[p] /\ ~txStore[p] /\ txRows[p] = <<>> /\ txSchema[p] = <<>>
            /\ hist[p] = <<>>
            /\ NothingApplied(p)
            /\ DurableUnchanged(p)

\* Recorded 1, 2; the candidate's ids are 1, 3 and its second entry differs
\* from the second recorded row.
ValidationFirstWitness ==
    \E p \in Procs :
        /\ Returned(p)
        /\ Len(pre[p].rows) = 2
        /\ Len(ms[p]) = 2
        /\ ms[p][1] = pre[p].rows[1]
        /\ ms[p][2].ID = 3
        /\ verifyMigrations(pre[p].rows, ms[p]).err.kind = "modified migration"
        /\ result[p].err = Err("unexpected migration id", 3, 2)

\* C8. Recorded-history prefix invariant: the ids of the durable bookkeeping
\* rows, ordered by id, are 1..k, without gap or duplicate, in every state
\* reached from the empty database by Migrate invocations run one at a time.
HistoryDense ==
    \A h \in Orderings(dbRows) : \A i \in 1 .. Len(h) : h[i].ID = i

\* A full history, and an invocation that has just failed on it.
HistoryDenseWitness ==
    \E p \in Procs :
        /\ Returned(p)
        /\ Len(dbRows) = MaxLen
        /\ result[p].err.kind \in VerifierKinds

\* C9. Append-only history: no step of any invocation changes or removes a
\* durable bookkeeping row; the rows before a step are a prefix of the rows
\* after it.
AppendOnly == [][IsPrefix(dbRows, dbRows')]_vars

\* An invocation that found rows and committed more.
AppendOnlyWitness ==
    \E p \in Procs :
        /\ Returned(p)
        /\ result[p].err.kind = "none"
        /\ Len(pre[p].rows) >= 1
        /\ Len(dbRows) > Len(pre[p].rows)
        /\ IsPrefix(pre[p].rows, dbRows)

\* When Migrate was called, the table did not hold the rows that the system
\* had recorded (a table is a bag of rows: their order does not count).
Tampered(p) == pre[p].orig \notin Orderings(pre[p].rows)

\* C10 as stated: after any deletion or modification of recorded rows, the
\* next Migrate with the original candidate (no database operation failing)
\* fails in the verifier and applies nothing.
TamperDetected ==
    \A p \in Procs :
        (Returned(p) /\ pre[p].orig # <<>> /\ Tampered(p)
           /\ IsPrefix(pre[p].orig, ms[p])
           /\ result[p].err.kind \notin (StoreFailKinds \cup ApplyFailKinds)) =>
            /\ result[p].err.kind \in VerifierKinds
            /\ NothingApplied(p)

\* C10, amended. Detection of external tampering: if, after migrations 1..k
\* were recorded, rows are modified or deleted outside the system so that the
\* remaining rows, ordered by id, are no longer the first rows of the
\* original candidate (every modification, and every deletion but that of
\* the last rows), the next Migrate with the original candidate fails in the
\* verifier with 'modified migration' and applies nothing; the deletion of
\* the last recorded rows (of the last one, or of all) is not detected: the
\* verifier passes and Migrate executes and records the deleted migrations
\* again.
TamperDetectedUnlessTail ==
    \A p \in Procs :
        (Returned(p) /\ pre[p].orig # <<>> /\ Tampered(p)
           /\ IsPrefix(pre[p].orig, ms[p])
           /\ result[p].err.kind \notin StoreFailKinds) =>
            /\ ~IsPrefix(hist[p], ms[p]) =>
                  /\ result[p].err.kind = "modified migration"
                  /\ NothingApplied(p)
                  /\ DurableUnchanged(p)
            /\ Len(hist[p]) = Len(pre[p].orig) => ~IsPrefix(hist[p], ms[p])
            /\ IsPrefix(hist[p], ms[p]) =>
                  /\ Len(hist[p]) < Len(pre[p].orig)
                  /\ result[p].err.kind \in {"none"} \cup ApplyFailKinds
                  /\ result[p].err.kind = "none" =>
                        /\ result[p].applied = SubSeq(ms[p], Len(hist[p]) + 1, Len(ms[p]))
                        /\ execLog[p] = result[p].applied
                        /\ Len(execLog[p]) > 0

\* The first of two recorded rows was deleted, and the call failed.
TamperWitness ==
    \E p \in Procs :
        /\ Returned(p)
        /\ Len(pre[p].orig) = 2
        /\ pre[p].rows = <<pre[p].orig[2]>>
        /\ IsPrefix(pre[p].orig, ms[p])
        /\ result[p].err = Err("modified migration", 2, 0)

\* How many times the statement of migration id took durable effect.
RECURSIVE CountId(_, _)
CountId(seq, id) ==
    IF seq = <<>> THEN 0
    ELSE (IF Head(seq).ID = id THEN 1 ELSE 0) + CountId(Tail(seq), id)

\* C11. Exactly once: with invocations run one at a time, the statement of
\* no migration id is durable more than once, and after a successful
\* invocation with candidate 1..N the statement of each of the migrations
\* 1..N is durable exactly once (and it is the candidate's statement).
ExactlyOnce ==
    /\ \A id \in IDs : CountId(dbSchema, id) <= 1
    /\ \A p \in Procs :
          (Returned(p) /\ result[p].err.kind = "none") =>
              /\ \A i \in 1 .. Len(ms[p]) : CountId(dbSchema, i) = 1
              /\ \A i \in 1 .. Len(ms[p]) : \E j \in 1 .. Len(dbSchema) : dbSchema[j] = ms[p][i]
              /\ Len(dbSchema) = Len(ms[p])

\* A second successful invocation with the same two migrations.
ExactlyOnceWitness ==
    \E p \in Procs :
        /\ Returned(p)
        /\ result[p].err.kind = "none"
        /\ Len(ms[p]) = 2
        /\ Len(pre[p].schema) = 2
        /\ dbSchema = ms[p]

\* C14. Fail-fast application: when the statement of migration j of the
\* suffix fails, exactly the migrations before j were executed and recorded
\* in the transaction, nothing after j was, the transaction is still open
\* when the error is raised (no commit was attempted), the error names the id
\* and the description of j, no applied list is returned and nothing is
\* durable.
FailFast ==
    \A p \in Procs :
        (pc[p] \in {"failed", "done"} /\ result[p].err.kind = "exec") =>
            LET j == idx[p]
            IN  /\ j \in 1 .. Len(rest[p])
                /\ execLog[p] = SubSeq(rest[p], 1, j - 1)
                /\ insLog[p] = SubSeq(rest[p], 1, j - 1)
                /\ result[p].err.id = rest[p][j].ID
                /\ result[p].err.desc = rest[p][j].Description
                /\ result[p].applied = <<>>
                /\ pc[p] = "failed" => (txOpen[p] /\ txRows[p] = insLog[p])
                /\ DurableUnchanged(p)

\* The second of two differently described migrations failed.
FailFastWitness ==
    \E p \in Procs :
        /\ Returned(p)
        /\ result[p].err.kind = "exec"
        /\ Len(rest[p]) = 2
        /\ idx[p] = 2
        /\ rest[p][1].Description # rest[p][2].Description
        /\ result[p].err.desc = rest[p][2].Description

StrictlyAscending(seq) ==
    \A i, j \in 1 .. Len(seq) : i < j => seq[i].ID < seq[j].ID

\* C15. Application order: within an invocation the statements are executed
\* in the order of the suffix, which ascends by id; the rows are inserted in
\* the same order, the row of a migration after its statement and before the
\* next statement (the inserted rows are the executed statements, less the
\* last one exactly between its execution and its insert); and the commit
\* comes after the last insert.
ApplicationOrder ==
    \A p \in Procs :
        /\ IsPrefix(execLog[p], rest[p])
        /\ StrictlyAscending(execLog[p])
        /\ IsPrefix(insLog[p], execLog[p])
        /\ pc[p] = "executed" => Len(execLog[p]) = Len(insLog[p]) + 1
        /\ pc[p] = "apply" => (insLog[p] = execLog[p] /\ Len(execLog[p]) = idx[p] - 1)
        /\ pc[p] = "committed" => (insLog[p] = rest[p] /\ execLog[p] = rest[p])
        /\ (Returned(p) /\ result[p].err.kind = "none") =>
              (insLog[p] = rest[p] /\ execLog[p] = rest[p]
                 /\ dbRows = pre[p].rows \o rest[p])

\* The second statement has run, its row is not yet inserted.
ApplicationOrderWitness ==
    \E p \in Procs :
        /\ pc[p] = "executed"
        /\ Len(execLog[p]) = 2
        /\ Len(insLog[p]) = 1

\* C16. Positional verification: given a candidate that passes validation
\* and a readable history, a candidate that differs from the recorded rows
\* at some position of the recorded range - a migration inserted or reordered
\* there, the candidate renumbered - is reported as 'modified migration' at
\* the first differing position, also when the candidate is shorter than the
\* history; 'unknown migration' is reported only when the candidate agrees
\* with the history at all of its positions. The same descriptions and
\* statements in another order do not verify.
PositionalVerification ==
    \A p \in Procs :
        (Returned(p) /\ WellFormed(ms[p]) /\ result[p].err.kind \notin StoreFailKinds) =>
            /\ Differing(p) # {} =>
                  /\ result[p].err.kind = "modified migration"
                  /\ result[p].err.id = SetMin(Differing(p))
                  /\ NothingApplied(p)
            /\ result[p].err.kind = "unknown migration" =>
                  (Differing(p) = {} /\ Len(ms[p]) < Len(hist[p]))
            /\ result[p].err.kind \notin VerifierKinds => IsPrefix(hist[p], ms[p])

\* The candidate differs at position 1 and is shorter than the history.
PositionalWitness ==
    \E p \in Procs :
        /\ Returned(p)
        /\ Len(hist[p]) = 2
        /\ Len(ms[p]) = 1
        /\ ms[p][1] # hist[p][1]
        /\ result[p].err = Err("modified migration", 1, 0)

\* The steps of Migrate, in the order of the code.
LifecycleSteps ==
    { <<"idle", "validated">>, <<"idle", "done">>,
      <<"validated", "txopen">>, <<"validated", "done">>,
      <<"txopen", "storeensured">>, <<"txopen", "failed">>,
      <<"storeensured", "historyread">>, <<"storeensured", "failed">>,
      <<"historyread", "apply">>, <<"historyread", "failed">>,
      <<"apply", "executed">>, <<"apply", "failed">>, <<"apply", "committed">>,
      <<"executed", "apply">>, <<"executed", "failed">>,
      <<"committed", "done">>, <<"failed", "done">>,
      <<"done", "idle">> }

LifecycleInv ==
    \A p \in Procs :
        /\ pc[p] \in {"idle", "validated", "done"} =>
              (~txOpen[p] /\ ~txStore[p] /\ txRows[p] = <<>> /\ txSchema[p] = <<>>)
        /\ pc[p] \in {"txopen", "storeensured", "historyread", "executed"} => txOpen[p]
        /\ execLog[p] # <<>> =>
              /\ pc[p] \in {"apply", "executed", "committed", "failed", "done"}
              /\ verifyMigrations(hist[p], ms[p]).err.kind = "none"
              /\ hist[p] = pre[p].rows
        /\ pc[p] = "committed" => result[p].err.kind = "none"
        /\ pc[p] = "failed" => result[p].err.kind # "none"
        /\ Returned(p) =>
              \/ result[p].err.kind = "none" /\ dbRows = pre[p].rows \o result[p].applied
              \/ result[p].err.kind # "none" /\ DurableUnchanged(p)

\* C17. Linear lifecycle: an invocation moves through validation, Begin,
\* store creation, history read, verification, the apply loop and Commit in
\* that order and never back; it executes no statement before the whole
\* history verified; it ends committed or aborted, never both; and it has no
\* open transaction and no pending write once it has returned.
Lifecycle ==
    /\ []LifecycleInv
    /\ [][\A p \in Procs : pc'[p] # pc[p] => <<pc[p], pc'[p]>> \in LifecycleSteps]_vars

\* Returned after a failure inside the open transaction that had writes.
LifecycleWitness ==
    \E p \in Procs :
        /\ Returned(p)
        /\ result[p].err.kind = "insert"
        /\ Len(execLog[p]) = 2
        /\ ~txOpen[p]

\* C18. Schema and history stay consistent: in every durable state reached
\* by invocations run one at a time the migrations whose statements are
\* durable are the migrations that have a row; a migration whose statement
\* ran but whose insert failed has neither.
SchemaMatchesHistory ==
    /\ dbSchema = dbRows
    /\ \A p \in Procs :
          (Returned(p) /\ result[p].err.kind = "insert") =>
              LET m == execLog[p][Len(execLog[p])]
              IN  /\ Len(execLog[p]) = Len(insLog[p]) + 1
                  /\ \A j \in 1 .. Len(dbSchema) : dbSchema[j] # m
                  /\ \A j \in 1 .. Len(dbRows) : dbRows[j] # m

\* The insert that follows the first statement failed.
SchemaMatchesHistoryWitness ==
    \E p \in Procs :
        /\ Returned(p)
        /\ result[p].err.kind = "insert"
        /\ Len(pre[p].rows) = 1
        /\ Len(execLog[p]) = 1
        /\ insLog[p] = <<>>
        /\ dbSchema = pre[p].rows

\* The positions of the candidate that Valid objects to.
Offending(c) ==
    { i \in 1 .. Len(c) : c[i].ID # i \/ c[i].Description = "" \/ c[i].SQL = "" }

\* C19. Validator error precedence: Valid reports the first offending entry
\* in the order given, and for it a wrong id for the position in preference
\* to a missing description and that in preference to a missing statement;
\* an id below 1 is reported as an unexpected id, never as an invalid id.
ValidatorPrecedence ==
    \A p \in Procs :
        (pc[p] # "idle" /\ Offending(ms[p]) # {}) =>
            LET f == SetMin(Offending(ms[p]))
                m == ms[p][f]
            IN  /\ result[p].err =
                      IF m.ID # f THEN Err("unexpected migration id", m.ID, f)
                      ELSE IF m.Description = "" THEN Err("missing description", f, 0)
                      ELSE Err("missing sql", f, 0)
                /\ result[p].err.kind # "invalid id"

\* {ID: 2} with empty fields at position 1 gives the id error.
ValidatorPrecedenceWitness ==
    \E p \in Procs :
        /\ Returned(p)
        /\ Len(ms[p]) >= 1
        /\ ms[p][1] = [ID |-> 2, Description |-> "", SQL |-> ""]
        /\ result[p].err = Err("unexpected migration id", 2, 1)

RECURSIVE CountRow(_, _)
CountRow(seq, r) ==
    IF seq = <<>> THEN 0
    ELSE (IF Head(seq) = r THEN 1 ELSE 0) + CountRow(Tail(seq), r)

\* The same rows, whatever their order.
SameRows(a, b) ==
    /\ Len(a) = Len(b)
    /\ \A i \in 1 .. Len(a) : CountRow(a, a[i]) = CountRow(b, a[i])

NoDuplicateIds(rows) ==
    \A i, j \in 1 .. Len(rows) : i # j => rows[i].ID # rows[j].ID

\* C12 as stated: with two concurrent invocations no reachable state holds
\* two bookkeeping rows with the same id.
ConcurrentNoDuplicate == NoDuplicateIds(dbRows)

\* C12, amended. Concurrent invocations: nothing in the code keeps two
\* concurrent invocations with the same candidate from both committing the
\* same migration (both read the history before either commits, both execute
\* and record the suffix, both commit, and the table holds two rows with the
\* same id). A commit leaves two rows with the same id only when the table
\* no longer holds exactly the rows that the committing invocation read,
\* that is when another invocation committed in between; invocations that do
\* not overlap in that way never record a migration twice.
ConcurrentCommit ==
    [][\A p \in Procs :
         (pc[p] = "apply" /\ pc'[p] = "committed" /\ NoDuplicateIds(dbRows)
            /\ SameRows(hist[p], dbRows))
         => NoDuplicateIds(dbRows')]_vars

\* Both invocations returned without error and the migration is executed
\* and recorded twice.
ConcurrentWitness ==
    /\ \A p \in Procs : Returned(p) /\ result[p].err.kind = "none"
    /\ ms[1] = ms[2]
    /\ Len(ms[1]) = 1
    /\ hist[1] = <<>> /\ hist[2] = <<>>
    /\ dbRows = ms[1] \o ms[2]
    /\ dbSchema = dbRows

\* The number of leading digits of a name.
LeadingDigits(name) ==
    SetMax({ k \in 0 .. Len(name) : \A i \in 1 .. k : IsDigit(name[i]) })

\* The naming convention {{id}}_{{description}}.sql of LoadMigrations' comment:
\* an ordinal, an underscore, a description that may be empty, ".sql".
Conventional(name) ==
    LET k == LeadingDigits(name)
    IN  /\ k >= 1
        /\ Len(name) >= k + 1 + 4
        /\ name[k + 1] = "_"
        /\ EndsWith(name, <<".", "s", "q", "l">>)

\* The numeric prefix of a name: its leading digits read as a decimal number.
NumericPrefix(name) == ParseInt(SubSeq(name, 1, LeadingDigits(name)), 10)

\* C13 as stated: LoadMigrations returns one migration for every file whose
\* name follows the naming convention and none for a name without a leading
\* ordinal; every migration it returns has the numeric prefix of its file's
\* name as id, the name as description and the content as statement; and the
\* result ascends by integer id.
LoadAsStated ==
    (loaded.state = "returned" /\ loaded.err = "none") =>
        /\ \A i \in 1 .. Len(files) :
              Conventional(files[i].name) =>
                 Cardinality({ j \in 1 .. Len(loaded.ms) :
                                 loaded.ms[j].Description = files[i].name }) = 1
        /\ \A i \in 1 .. Len(files) :
              LeadingDigits(files[i].name) = 0 =>
                 \A j \in 1 .. Len(loaded.ms) :
                    loaded.ms[j].Description # files[i].name
        /\ \A j \in 1 .. Len(loaded.ms) :
              /\ \E i \in 1 .. Len(files) :
                    /\ loaded.ms[j].Description = files[i].name
                    /\ loaded.ms[j].SQL = files[i].data
              /\ loaded.ms[j].ID = NumericPrefix(loaded.ms[j].Description)
        /\ \A i, j \in 1 .. Len(loaded.ms) :
              i < j => loaded.ms[i].ID <= loaded.ms[j].ID

\* The name as the database is to see it: what comes before its first NUL.
BeforeNul(name) ==
    SubSeq(name, 1, SetMax({ k \in 0 .. Len(name) : \A i \in 1 .. k : name[i] # NUL }))

\* How the database reads a quoted identifier whose opening quote it has
\* consumed, from text[i] on: two double quotes stand for one, a single
\* double quote ends the identifier. The result tells whether the identifier
\* was closed, where the next token starts, and the identifier read.
RECURSIVE ScanQuoted(_, _, _)
ScanQuoted(text, i, ident) ==
    IF i > Len(text) \/ text[i] = NUL
        THEN [closed |-> FALSE, next |-> i, ident |-> ident]
        ELSE IF text[i] # DQ
            THEN ScanQuoted(text, i + 1, Append(ident, text[i]))
            ELSE IF i < Len(text) /\ text[i + 1] = DQ
                THEN ScanQuoted(text, i + 2, Append(ident, DQ))
                ELSE [closed |-> TRUE, next |-> i + 1, ident |-> ident]

\* The quoted identifier that starts at text[i].
ReadIdentifier(text, i) ==
    IF i <= Len(text) /\ text[i] = DQ
        THEN ScanQuoted(text, i + 1, <<>>)
        ELSE [closed |-> FALSE, next |-> i, ident |-> <<>>]

\* Every maximal run of double quotes in the text has even length.
EvenQuoteRuns(text) ==
    \A i, j \in 1 .. Len(text) :
        ( /\ i <= j
          /\ \A k \in i .. j : text[k] = DQ
          /\ (i = 1 \/ text[i - 1] # DQ)
          /\ (j = Len(text) \/ text[j + 1] # DQ) )
        => (j - i + 1) % 2 = 0

\* The text is one quoted identifier that stands for the name: it opens and
\* closes with a double quote, what is between holds no NUL and only
\* even-length runs of double quotes and is as long as the name cut at its
\* first NUL plus one per double quote in it, and the database reads the
\* text to its last character as exactly that cut name.
QuotesName(text, name) ==
    LET cut == BeforeNul(name)
        inner == SubSeq(text, 2, Len(text) - 1)
        read == ReadIdentifier(text, 1)
    IN  /\ Len(text) >= 2
        /\ text[1] = DQ /\ text[Len(text)] = DQ
        /\ \A i \in 1 .. Len(inner) : inner[i] # NUL
        /\ EvenQuoteRuns(inner)
        /\ Len(inner) = Len(cut) + Cardinality({ i \in 1 .. Len(cut) : cut[i] = DQ })
        /\ read.closed
        /\ read.next = Len(text) + 1
        /\ read.ident = cut

\* C20. Identifier quoting: the text quoteIdentifier builds for the schema
\* is a double quote, the name cut at its first NUL with every double quote
\* doubled, and a closing double quote, so that it holds no NUL and only
\* even-length runs of double quotes between the outer quotes and no
\* configured name ends the identifier early; the text of table() reads as
\* exactly two such identifiers, the schema's and the table's, with one dot
\* between them.
QuotingSound ==
    /\ quoted.schema # <<>> => QuotesName(quoted.schema, cfg.Schema)
    /\ quoted.table # <<>> =>
          LET first == ReadIdentifier(quoted.table, 1)
          IN  /\ first.closed
              /\ QuotesName(SubSeq(quoted.table, 1, first.next - 1), cfg.Schema)
              /\ first.next <= Len(quoted.table)
              /\ quoted.table[first.next] = "."
              /\ QuotesName(SubSeq(quoted.table, first.next + 1, Len(quoted.table)),
                            cfg.Table)

\* Both texts are built from a schema name with a double quote before a NUL
\* and a table name that ends in a double quote.
QuotingWitness ==
    /\ quoted.schema # <<>>
    /\ quoted.table # <<>>
    /\ Len(cfg.Schema) = 3
    /\ cfg.Schema[1] = DQ /\ cfg.Schema[2] = NUL /\ cfg.Schema[3] = DQ
    /\ cfg.Table # <<>>
    /\ cfg.Table[Len(cfg.Table)] = DQ

====
